---------------------------- MODULE Spec2Model ----------------------------
(***************************************************************************)
(* Single-decree Paxos agents (stepchowfun/paxos).  Every agent runs the   *)
(* acceptor half (the prepare / accept / choose handlers behind the HTTP   *)
(* server) and, when started with --propose, the proposer half (the        *)
(* propose loop).  Both halves share one State object per agent.           *)
(*                                                                         *)
(* Spec          the cluster: proposers broadcast, the network delivers    *)
(*               requests late, repeatedly and in any order, and loses     *)
(*               responses.                                                *)
(* SpecAcceptor  one agent's handlers called directly with every possible  *)
(*               request, in every order.                                  *)
(***************************************************************************)
EXTENDS Integers, Sequences, FiniteSets, TLC

\* Option<T>: None, or Some(x).
None == <<>>

Some(x) == <<x>>

is_some(o) == o # None

\* Option::unwrap; only ever applied where the code's unwrap cannot panic.
unwrap(o) == o[1]

----------------------------------------------------------------------------
\* Configuration

\* propose retries without limit; the model lets the proposers start
\* MaxAttempts attempts between them.
MaxAttempts == 2

\* config.nodes: the addresses of the agents, by node index.  The address
\* order (ip first, then port) differs from the index order.
nodes == << [ip |-> 1, port |-> 2], [ip |-> 2, port |-> 1], [ip |-> 1, port |-> 1] >>

Nodes == DOMAIN nodes

\* settings.proposal of each agent (--propose VALUE): agents 1 and 2 propose,
\* agent 3 is an acceptor only.
proposal == << Some("a"), Some("b"), None >>

Values == {"a", "b"}

----------------------------------------------------------------------------
\* Proposal numbers

\* impl Ord for ProposalNumber: -1 (Less), 0 (Equal), 1 (Greater).  The round
\* takes precedence over the proposer's address.
cmp_int(x, y) == IF x < y THEN -1 ELSE IF x = y THEN 0 ELSE 1

\* The order that looks at the proposer's address before the round.
cmp_address_first(self, other) ==
    IF self.proposer_address = other.proposer_address
    THEN cmp_int(self.round, other.round)
    ELSE IF self.proposer_address.ip = other.proposer_address.ip
         THEN cmp_int(self.proposer_address.port, other.proposer_address.port)
         ELSE cmp_int(self.proposer_address.ip, other.proposer_address.ip)

cmp(self, other) ==
    IF self.round = other.round
    THEN IF self.proposer_address.ip = other.proposer_address.ip
         THEN cmp_int(self.proposer_address.port, other.proposer_address.port)
         ELSE cmp_int(self.proposer_address.ip, other.proposer_address.ip)
    ELSE cmp_int(self.round, other.round)

gt(x, y) == cmp(x, y) = 1

ge(x, y) == cmp(x, y) >= 0

lt(x, y) == cmp(x, y) = -1

le(x, y) == cmp(x, y) <= 0

ProposalNumbers ==
    { [round |-> r, proposer_address |-> nodes[i]] : r \in 0..(MaxAttempts - 1), i \in Nodes }

----------------------------------------------------------------------------
\* State

\* state::initial()
initial ==
    [ next_round          |-> 0,
      min_proposal_number |-> None,
      accepted_proposal   |-> None,
      chosen_value        |-> None ]

\* The durable part of the state (state.0), the record handle_request writes
\* to the state file.  propose writes the State it holds the lock of, whole.
Durable(s) ==
    [ next_round          |-> s.next_round,
      min_proposal_number |-> s.min_proposal_number,
      accepted_proposal   |-> s.accepted_proposal ]

\* bincode::serialize: the blob that encodes a record.
serialize(s) == [complete |-> TRUE, payload |-> s]

\* What File::create and an unfinished write_all leave in the file: a strict
\* prefix of a blob (no bytes at all right after File::create).
Torn == [complete |-> FALSE]

\* bincode::deserialize(&data).ok(): a strict prefix of a blob does not decode.
deserialize(data) == IF data.complete THEN Some(data.payload) ELSE None

\* state::write run to its end: the file holds the whole blob.
write(durable) == Some(serialize(durable))

VARIABLES
    state,            \* state[a]: the State object of agent a
    disk,             \* disk[a]: the contents of a's state file, None if missing
    stdout,           \* stdout[a]: the lines a's process has printed (the learn sink)
    msgs,             \* the requests proposers have sent so far
    pc,               \* pc[p]: where p's propose loop is; "down" when p's process is dead
    proposal_number,  \* proposal_number[p]: the number of p's current attempt
    new_value,        \* new_value[p]: the value of p's accept phase
    responses,        \* responses[p][a]: a's response to p's current broadcast
    votes,            \* history: every proposal a has accepted (Spec)
    promised,         \* history: the highest number a answered a prepare for (SpecAcceptor)
    last,             \* history: the latest handler call (SpecAcceptor, SpecCrash)
    boot,             \* history: the start of a process, until its first operation
    failed,           \* history: failed[a]: a write of the state file has failed in a's process
    chosen_before,    \* history: chosen_before[p]: the values chosen when p's current attempt began
    lock              \* lock[a]: who holds the lock of a's State across an await, None if nobody

vars == << state, disk, stdout, msgs, pc, proposal_number, new_value,
           responses, votes, promised, last, boot, failed, chosen_before, lock >>

proposer_vars == << msgs, pc, proposal_number, new_value, responses >>

NoResponses == [a \in Nodes |-> None]

Responded(p) == { a \in Nodes : is_some(responses[p][a]) }

\* Half of the nodes, rounded down.
quorum_half == Len(nodes) \div 2

\* nodes.len() / 2 + 1
quorum == (Len(nodes) \div 2) + 1

Init ==
    /\ state = [a \in Nodes |-> initial]
    /\ disk = [a \in Nodes |-> None]
    /\ stdout = [a \in Nodes |-> <<>>]
    /\ msgs = {}
    /\ pc = [p \in Nodes |-> IF is_some(proposal[p]) THEN "start" ELSE "off"]
    /\ proposal_number = [p \in Nodes |-> None]
    /\ new_value = [p \in Nodes |-> None]
    /\ responses = [p \in Nodes |-> NoResponses]
    /\ votes = [a \in Nodes |-> {}]
    /\ promised = [a \in Nodes |-> None]
    /\ last = None
    /\ boot = None
    /\ failed = [a \in Nodes |-> FALSE]
    /\ chosen_before = [p \in Nodes |-> {}]
    /\ lock = [a \in Nodes |-> None]


----------------------------------------------------------------------------
\* Acceptor: the three handlers.  Each takes the request and the state and
\* gives the state it leaves and the response it returns.

\* prepare that takes any requested number, lower ones too.
prepare_any(request, s) ==
    LET s1 == IF is_some(request.proposal_number)
              THEN [s EXCEPT !.min_proposal_number = request.proposal_number]
              ELSE s
    IN  [ state    |-> s1,
          response |-> [accepted_proposal |-> s1.accepted_proposal],
          printed  |-> <<>> ]

\* prepare that keeps the first promise and never raises it.
prepare_first_only(request, s) ==
    LET s1 == IF is_some(request.proposal_number) /\ ~is_some(s.min_proposal_number)
              THEN [s EXCEPT !.min_proposal_number = request.proposal_number]
              ELSE s
    IN  [ state    |-> s1,
          response |-> [accepted_proposal |-> s1.accepted_proposal],
          printed  |-> <<>> ]

\* prepare that never reports an accepted proposal.
prepare_reports_nothing(request, s) ==
    LET s1 == IF /\ is_some(request.proposal_number)
                 /\ \/ ~is_some(s.min_proposal_number)
                    \/ gt(unwrap(request.proposal_number), unwrap(s.min_proposal_number))
              THEN [s EXCEPT !.min_proposal_number = request.proposal_number]
              ELSE s
    IN  [ state    |-> s1,
          response |-> [accepted_proposal |-> None],
          printed  |-> <<>> ]

\* Logic for the "prepare" endpoint
prepare(request, s) ==
    LET s1 ==
            IF is_some(request.proposal_number)
            THEN LET requested_proposal_number == unwrap(request.proposal_number)
                 IN  IF is_some(s.min_proposal_number)
                     THEN IF gt(requested_proposal_number, unwrap(s.min_proposal_number))
                          THEN [s EXCEPT !.min_proposal_number = Some(requested_proposal_number)]
                          ELSE s
                     ELSE [s EXCEPT !.min_proposal_number = Some(requested_proposal_number)]
            ELSE s
    IN  [ state    |-> s1,
          response |-> [accepted_proposal |-> s1.accepted_proposal],
          printed  |-> <<>> ]

\* accept that takes every proposal, whatever was promised.
accept_always(request, s) ==
    LET s1 == [s EXCEPT !.min_proposal_number = Some(request.proposal[1]),
                        !.accepted_proposal   = Some(request.proposal)]
    IN  [ state    |-> s1,
          response |-> [min_proposal_number |-> unwrap(s1.min_proposal_number)],
          printed  |-> <<>> ]

\* accept that wants a number strictly above the promise.
accept_strict(request, s) ==
    LET s1 == IF \/ ~is_some(s.min_proposal_number)
                 \/ gt(request.proposal[1], unwrap(s.min_proposal_number))
              THEN [s EXCEPT !.min_proposal_number = Some(request.proposal[1]),
                             !.accepted_proposal   = Some(request.proposal)]
              ELSE s
    IN  [ state    |-> s1,
          response |-> [min_proposal_number |-> unwrap(s1.min_proposal_number)],
          printed  |-> <<>> ]

\* accept that answers with the request's own number.
accept_echo(request, s) ==
    LET s1 == IF \/ ~is_some(s.min_proposal_number)
                 \/ ge(request.proposal[1], unwrap(s.min_proposal_number))
              THEN [s EXCEPT !.min_proposal_number = Some(request.proposal[1]),
                             !.accepted_proposal   = Some(request.proposal)]
              ELSE s
    IN  [ state    |-> s1,
          response |-> [min_proposal_number |-> request.proposal[1]],
          printed  |-> <<>> ]

\* accept that answers with the promise it found, not the one it leaves.
accept_reports_before(request, s) ==
    LET s1 == IF \/ ~is_some(s.min_proposal_number)
                 \/ ge(request.proposal[1], unwrap(s.min_proposal_number))
              THEN [s EXCEPT !.min_proposal_number = Some(request.proposal[1]),
                             !.accepted_proposal   = Some(request.proposal)]
              ELSE s
    IN  [ state    |-> s1,
          response |-> [min_proposal_number |->
                           IF is_some(s.min_proposal_number)
                           THEN unwrap(s.min_proposal_number) ELSE request.proposal[1]],
          printed  |-> <<>> ]

\* accept that wants a promise to be there: without one it refuses and
\* answers with the number it was given.
accept_needs_promise(request, s) ==
    LET s1 == IF /\ is_some(s.min_proposal_number)
                 /\ ge(request.proposal[1], unwrap(s.min_proposal_number))
              THEN [s EXCEPT !.min_proposal_number = Some(request.proposal[1]),
                             !.accepted_proposal   = Some(request.proposal)]
              ELSE s
    IN  [ state    |-> s1,
          response |-> [min_proposal_number |->
                           IF is_some(s1.min_proposal_number)
                           THEN unwrap(s1.min_proposal_number) ELSE request.proposal[1]],
          printed  |-> <<>> ]

\* Logic for the "accept" endpoint; request.proposal is (number, value).
accept(request, s) ==
    LET s1 ==
            IF \/ ~is_some(s.min_proposal_number)
               \/ ge(request.proposal[1], unwrap(s.min_proposal_number))
            THEN [s EXCEPT !.min_proposal_number = Some(request.proposal[1]),
                           !.accepted_proposal   = Some(request.proposal)]
            ELSE s
    IN  [ state    |-> s1,
          response |-> [min_proposal_number |-> unwrap(s1.min_proposal_number)],
          printed  |-> <<>> ]

\* choose that prints and stores every value it is given.
choose_again(request, s) ==
    [ state    |-> [s EXCEPT !.chosen_value = Some(request.value)],
      response |-> "ChooseResponse",
      printed  |-> <<request.value>> ]

\* Logic for the "choose" endpoint; the value is printed before it is stored.
choose(request, s) ==
    IF ~is_some(s.chosen_value)
    THEN [ state    |-> [s EXCEPT !.chosen_value = Some(request.value)],
           response |-> "ChooseResponse",
           printed  |-> <<request.value>> ]
    ELSE [ state |-> s, response |-> "ChooseResponse", printed |-> <<>> ]

PREPARE_ENDPOINT == "/prepare"

ACCEPT_ENDPOINT == "/accept"

CHOOSE_ENDPOINT == "/choose"

\* rpc that writes the file first and runs the handler afterwards.
rpc_persist_first(endpoint, payload, s) ==
    LET r == CASE endpoint = PREPARE_ENDPOINT -> prepare(payload, s)
               [] endpoint = ACCEPT_ENDPOINT  -> accept(payload, s)
               [] endpoint = CHOOSE_ENDPOINT  -> choose(payload, s)
    IN  [ state    |-> r.state,
          disk     |-> write(Durable(s)),
          response |-> r.response,
          printed  |-> r.printed ]

\* handle_request's rpc! macro between taking the write lock and releasing it:
\* run the handler on the state, then write the durable state to the file.
rpc(endpoint, payload, s) ==
    LET r == CASE endpoint = PREPARE_ENDPOINT -> prepare(payload, s)
               [] endpoint = ACCEPT_ENDPOINT  -> accept(payload, s)
               [] endpoint = CHOOSE_ENDPOINT  -> choose(payload, s)
    IN  [ state    |-> r.state,
          disk     |-> write(Durable(r.state)),
          response |-> r.response,
          printed  |-> r.printed ]

\* Agent a serves one request: the handler runs under the write lock, so the
\* whole of rpc is one step.
Handle(a, endpoint, payload) ==
    LET r == rpc(endpoint, payload, state[a])
    IN  /\ state'  = [state  EXCEPT ![a] = r.state]
        /\ disk'   = [disk   EXCEPT ![a] = r.disk]
        /\ stdout' = [stdout EXCEPT ![a] = stdout[a] \o r.printed]

----------------------------------------------------------------------------
\* Proposer

\* A generator that does not advance next_round.
generate_same_round(node_index, s) ==
    [ proposal_number |-> [round |-> s.next_round, proposer_address |-> nodes[node_index]],
      state           |-> s ]

\* A generator that stamps every number with the address of the first node.
generate_without_address(node_index, s) ==
    [ proposal_number |-> [round |-> s.next_round, proposer_address |-> nodes[1]],
      state           |-> [s EXCEPT !.next_round = s.next_round + 1] ]

\* Generate a new proposal number.
generate_proposal_number(node_index, s) ==
    [ proposal_number |-> [round |-> s.next_round, proposer_address |-> nodes[node_index]],
      state           |-> [s EXCEPT !.next_round = s.next_round + 1] ]

PrepareRequest(n) == [endpoint |-> PREPARE_ENDPOINT, payload |-> [proposal_number |-> n]]

AcceptRequest(n, v) == [endpoint |-> ACCEPT_ENDPOINT, payload |-> [proposal |-> <<n, v>>]]

ChooseRequest(v) == [endpoint |-> CHOOSE_ENDPOINT, payload |-> [value |-> v]]

\* The request p's current broadcast carries, None when p is not waiting.
Request(p) ==
    CASE pc[p] = "prepare" -> Some(PrepareRequest(proposal_number[p]))
      [] pc[p] = "accept"  -> Some(AcceptRequest(unwrap(proposal_number[p]), unwrap(new_value[p])))
      [] pc[p] = "choose"  -> Some(ChooseRequest(unwrap(new_value[p])))
      [] OTHER             -> None

\* How many responses p's current broadcast waits for: broadcast_quorum takes
\* the first nodes.len() / 2 + 1, broadcast_all takes them all.
Awaited(p) == IF pc[p] = "choose" THEN Len(nodes) ELSE quorum

\* The attempts started so far: every attempt takes one round of its proposer.
RECURSIVE Sum(_, _)
Sum(f, S) == IF S = {} THEN 0 ELSE LET x == CHOOSE y \in S : TRUE IN f[x] + Sum(f, S \ {x})

Attempts == Sum([p \in Nodes |-> state[p].next_round], Nodes)

\* The agents that have accepted the proposal x.
Voters(x) == { a \in Nodes : x \in votes[a] }

\* The values of the proposals a majority of the agents has accepted.
Chosen ==
    { x[2] : x \in { y \in UNION { votes[a] : a \in Nodes } : Cardinality(Voters(y)) >= quorum } }

\* propose, lines 137-142: take the write lock and generate a number.
GenerateProposalNumber(p) ==
    /\ pc[p] = "start"
    /\ Attempts < MaxAttempts
    /\ LET g == generate_proposal_number(p, state[p])
       IN  /\ state' = [state EXCEPT ![p] = g.state]
           /\ proposal_number' = [proposal_number EXCEPT ![p] = Some(g.proposal_number)]
    /\ pc' = [pc EXCEPT ![p] = "persist"]
    /\ boot' = None
    /\ chosen_before' = [chosen_before EXCEPT ![p] = Chosen]
    /\ UNCHANGED << disk, stdout, msgs, new_value, responses, votes, promised, last, failed, lock >>

\* propose, lines 144-167: persist the state under the read lock, then send a
\* prepare message to all the nodes.
PersistAndPrepare(p) ==
    /\ pc[p] = "persist"
    /\ disk' = [disk EXCEPT ![p] = write(state[p])]
    /\ msgs' = msgs \cup {PrepareRequest(proposal_number[p])}
    /\ responses' = [responses EXCEPT ![p] = NoResponses]
    /\ pc' = [pc EXCEPT ![p] = "prepare"]
    /\ UNCHANGED << state, stdout, proposal_number, new_value, votes, promised, last, boot, failed, chosen_before, lock >>

\* Every accepted proposal among the prepare responses, whatever its number.
AnyAccepted(rs) ==
    { unwrap(unwrap(rs[a]).accepted_proposal) :
        a \in { b \in Nodes : /\ is_some(rs[b])
                              /\ is_some(unwrap(rs[b]).accepted_proposal) } }

\* The accepted proposals with the highest number among the prepare responses
\* rs (max_by_key keeps one of them).
HighestAccepted(rs) ==
    LET accepted == { unwrap(unwrap(rs[a]).accepted_proposal) :
                        a \in { b \in Nodes : /\ is_some(rs[b])
                                              /\ is_some(unwrap(rs[b]).accepted_proposal) } }
    IN  { x \in accepted : \A y \in accepted : ge(x[1], y[1]) }

\* Always propose the given value.
NewValues_original(p, rs) == { unwrap(proposal[p]) }

\* The original value is lost: with no accepted proposal among the
\* responses an empty string is proposed.
NewValues_blank(p, rs) ==
    IF HighestAccepted(rs) # {}
    THEN { x[2] : x \in HighestAccepted(rs) }
    ELSE { "" }

\* Determine which value to propose (lines 169-185).
NewValues(p, rs) ==
    IF HighestAccepted(rs) # {}
    THEN { x[2] : x \in HighestAccepted(rs) }
    ELSE { unwrap(proposal[p]) }

\* Chosen as soon as one response carries our number.
AllAccepted_any(p, rs) ==
    \E a \in Nodes :
        is_some(rs[a]) /\ unwrap(rs[a]).min_proposal_number = unwrap(proposal_number[p])

\* The comparison turned round: chosen when no response carries our number.
AllAccepted_other(p, rs) ==
    \A a \in Nodes :
        is_some(rs[a]) => unwrap(rs[a]).min_proposal_number # unwrap(proposal_number[p])

\* Was the proposed value chosen? (lines 205-208)
AllAccepted(p, rs) ==
    \A a \in Nodes :
        is_some(rs[a]) => unwrap(rs[a]).min_proposal_number = unwrap(proposal_number[p])

----------------------------------------------------------------------------
\* Network.  A request that was sent can reach any agent at any later time, any
\* number of times.  The agent serves it; its response is lost, or it reaches
\* the send future of the proposer p that waits for it.  A response that
\* completes p's broadcast resumes propose, which runs on to its next await.

\* p's send future for node a is still pending.
Pending(p, a) ==
    /\ is_some(Request(p))
    /\ ~is_some(responses[p][a])

\* p's responses once a has answered p's request.
With(p, a) ==
    LET m == unwrap(Request(p))
    IN  [responses[p] EXCEPT ![a] = Some(rpc(m.endpoint, m.payload, state[a]).response)]

\* votes notes every proposal a has held as its accepted proposal.
Deliver(a, m) ==
    /\ Handle(a, m.endpoint, m.payload)
    /\ votes' = [votes EXCEPT ![a] =
                    LET accepted == rpc(m.endpoint, m.payload, state[a]).state.accepted_proposal
                    IN  IF is_some(accepted) THEN votes[a] \cup {unwrap(accepted)} ELSE votes[a]]

\* Agent a serves p's request.
HandleRequest(a, p) == Deliver(a, unwrap(Request(p)))

Complete(p, rs) == Cardinality({ a \in Nodes : is_some(rs[a]) }) = Awaited(p)

\* The response is lost, or nobody waits for it any longer.
Serve(a, m) ==
    /\ Deliver(a, m)
    /\ UNCHANGED << msgs, pc, proposal_number, new_value, responses, promised, last, boot, failed, chosen_before, lock >>

\* The response reaches p, which still waits for more.
Respond(a, p) ==
    /\ Pending(p, a)
    /\ ~Complete(p, With(p, a))
    /\ HandleRequest(a, p)
    /\ responses' = [responses EXCEPT ![p] = With(p, a)]
    /\ UNCHANGED << msgs, pc, proposal_number, new_value, promised, last, boot, failed, chosen_before, lock >>

\* propose, lines 161-202: the response completes the prepare quorum; pick
\* the value and send an accept message to all the nodes.
SendAccept(a, p) ==
    /\ pc[p] = "prepare"
    /\ Pending(p, a)
    /\ Complete(p, With(p, a))
    /\ HandleRequest(a, p)
    /\ \E v \in NewValues(p, With(p, a)) :
         /\ new_value' = [new_value EXCEPT ![p] = Some(v)]
         /\ msgs' = msgs \cup {AcceptRequest(unwrap(proposal_number[p]), v)}
    /\ responses' = [responses EXCEPT ![p] = NoResponses]
    /\ pc' = [pc EXCEPT ![p] = "accept"]
    /\ UNCHANGED << proposal_number, promised, last, boot, failed, chosen_before, lock >>

\* propose, lines 204-217: the response completes the accept quorum and every
\* response carries our number; notify all the nodes.
SendChoose(a, p) ==
    /\ pc[p] = "accept"
    /\ Pending(p, a)
    /\ Complete(p, With(p, a))
    /\ AllAccepted(p, With(p, a))
    /\ HandleRequest(a, p)
    /\ msgs' = msgs \cup {ChooseRequest(unwrap(new_value[p]))}
    /\ responses' = [responses EXCEPT ![p] = NoResponses]
    /\ pc' = [pc EXCEPT ![p] = "choose"]
    /\ UNCHANGED << proposal_number, new_value, promised, last, boot, failed, chosen_before, lock >>

\* propose, lines 222-225: the response completes the accept quorum and some
\* response carries another number; sleep, then start over.
StartOver(a, p) ==
    /\ pc[p] = "accept"
    /\ Pending(p, a)
    /\ Complete(p, With(p, a))
    /\ ~AllAccepted(p, With(p, a))
    /\ HandleRequest(a, p)
    /\ responses' = [responses EXCEPT ![p] = NoResponses]
    /\ proposal_number' = [proposal_number EXCEPT ![p] = None]
    /\ new_value' = [new_value EXCEPT ![p] = None]
    /\ pc' = [pc EXCEPT ![p] = "start"]
    /\ chosen_before' = [chosen_before EXCEPT ![p] = {}]
    /\ UNCHANGED << msgs, promised, last, boot, failed, lock >>

\* propose, lines 217-219: every node has answered the choose; return Ok.
Return(a, p) ==
    /\ pc[p] = "choose"
    /\ Pending(p, a)
    /\ Complete(p, With(p, a))
    /\ HandleRequest(a, p)
    /\ responses' = [responses EXCEPT ![p] = NoResponses]
    /\ pc' = [pc EXCEPT ![p] = "done"]
    /\ chosen_before' = [chosen_before EXCEPT ![p] = {}]
    /\ UNCHANGED << msgs, proposal_number, new_value, promised, last, boot, failed, lock >>

Next ==
    \/ \E p \in Nodes : GenerateProposalNumber(p)
    \/ \E p \in Nodes : PersistAndPrepare(p)
    \/ \E a \in Nodes, m \in msgs : Serve(a, m)
    \/ \E a \in Nodes, p \in Nodes : Respond(a, p)
    \/ \E a \in Nodes, p \in Nodes : SendAccept(a, p)
    \/ \E a \in Nodes, p \in Nodes : SendChoose(a, p)
    \/ \E a \in Nodes, p \in Nodes : StartOver(a, p)
    \/ \E a \in Nodes, p \in Nodes : Return(a, p)

Spec == Init /\ [][Next]_vars

----------------------------------------------------------------------------
\* One agent's handlers, called directly.  Any client can post any request:
\* a prepare with or without a number, an accept of any proposal, a choose of
\* any value, in any order, while the agent's own proposer takes numbers.

PrepareRequests ==
    {[proposal_number |-> None]} \cup {[proposal_number |-> Some(n)] : n \in ProposalNumbers}

AcceptRequests == {[proposal |-> <<n, v>>] : n \in ProposalNumbers, v \in Values}

ChooseRequests == {[value |-> v] : v \in Values}

\* Agent b has served a request or started an attempt.
Touched(b) == disk[b] # None \/ state[b] # initial

\* a is the agent whose handlers are called: no other agent has run.
Alone(a) == \A b \in Nodes \ {a} : ~Touched(b)

\* The highest of an optional number and a number.
max_number(o, n) == IF is_some(o) /\ ge(unwrap(o), n) THEN o ELSE Some(n)

\* One handler call on a; last notes the call, the state before and after it
\* and the response, promised the highest number a has answered a prepare for.
Call(a, endpoint, payload) ==
    /\ Alone(a)
    /\ Handle(a, endpoint, payload)
    /\ LET r == rpc(endpoint, payload, state[a])
       IN  last' = Some([ node     |-> a,
                          endpoint |-> endpoint,
                          request  |-> payload,
                          before   |-> state[a],
                          after    |-> r.state,
                          response |-> r.response,
                          printed  |-> r.printed ])
    /\ promised' = [promised EXCEPT ![a] =
                      IF endpoint = PREPARE_ENDPOINT /\ is_some(payload.proposal_number)
                      THEN max_number(promised[a], unwrap(payload.proposal_number))
                      ELSE promised[a]]
    /\ UNCHANGED << proposer_vars, votes, boot, failed, chosen_before, lock >>

CallPrepare(a, request) == Call(a, PREPARE_ENDPOINT, request)

CallAccept(a, request) == Call(a, ACCEPT_ENDPOINT, request)

CallChoose(a, request) == Call(a, CHOOSE_ENDPOINT, request)

\* The agent's own proposer takes its next number.
TakeNumber(p) == Alone(p) /\ GenerateProposalNumber(p)

NextAcceptor ==
    \/ \E a \in Nodes, request \in PrepareRequests : CallPrepare(a, request)
    \/ \E a \in Nodes, request \in AcceptRequests : CallAccept(a, request)
    \/ \E a \in Nodes, request \in ChooseRequests : CallChoose(a, request)
    \/ \E p \in Nodes : TakeNumber(p)

SpecAcceptor == Init /\ [][NextAcceptor]_vars

----------------------------------------------------------------------------
\* One agent over the lifetimes of its process: the process serves requests
\* and takes numbers, is killed at any point (also in the middle of a write
\* of the state file), sees a write fail, and is started again.

\* The agents started with --propose.
Proposers == { p \in Nodes : is_some(proposal[p]) }

\* Every request propose can send, in any attempt of any proposer.
Requests ==
    { PrepareRequest(Some(n)) : n \in { x \in ProposalNumbers : x.proposer_address \in { nodes[p] : p \in Proposers } } }
      \cup { AcceptRequest(n, v) : n \in { x \in ProposalNumbers : x.proposer_address \in { nodes[p] : p \in Proposers } },
                                 v \in Values }
      \cup { ChooseRequest(v) : v \in Values }

\* state::read into the state s: fs::read fails when there is no file, the
\* bytes may not decode, and otherwise the decoded record overwrites s.
read(s, file) ==
    IF file = None
    THEN [result |-> "NotFound", state |-> s]
    ELSE IF deserialize(unwrap(file)) = None
         THEN [result |-> "InvalidData", state |-> s]
         ELSE LET loaded == unwrap(deserialize(unwrap(file)))
              IN  [ result |-> "Ok",
                    state  |-> [f \in DOMAIN s |-> IF f \in DOMAIN loaded THEN loaded[f] ELSE s[f]] ]

\* run that never reads the file.
run_fresh(file) == [result |-> "NotFound", state |-> initial]

\* run, lines 211-222: initialise the state and attempt to read the persisted
\* state; the outcome of the read is logged and not looked at again.
run(file) == read(initial, file)

\* What state::write can leave in the file when it does not run to its end:
\* the old contents (before File::create), a strict prefix of the new blob
\* (after File::create truncated the file), or the whole blob (before fsync
\* returned).
unfinished_write(old, new) == {old, Some(Torn), new}

\* The process of a ends, and its proposer with it.  state[a] keeps the
\* memory the process had when it ended, until the next process replaces it.
Exit(a) ==
    /\ pc' = [pc EXCEPT ![a] = "down"]
    /\ proposal_number' = [proposal_number EXCEPT ![a] = None]
    /\ new_value' = [new_value EXCEPT ![a] = None]
    /\ responses' = [responses EXCEPT ![a] = NoResponses]
    /\ failed' = [failed EXCEPT ![a] = FALSE]
    /\ boot' = None

\* Agent a's process is running.
Up(a) == pc[a] # "down"

\* The agent whose process is followed: the one that only accepts.
Subject == Nodes \ Proposers

\* What last notes of an operation of a: the request (None for propose), the
\* state it left in memory and how it ended ("answered", "killed", "failed").
Operation(a, endpoint, request, after, result) ==
    Some([ node     |-> a,
           endpoint |-> endpoint,
           request  |-> request,
           after    |-> after,
           result   |-> result ])

\* The process serves a request to its end and answers it.
Answer(a, m) ==
    /\ Up(a)
    /\ Handle(a, m.endpoint, m.payload)
    /\ last' = Operation(a, m.endpoint, Some(m.payload),
                         rpc(m.endpoint, m.payload, state[a]).state, "answered")
    /\ boot' = None
    /\ UNCHANGED << proposer_vars, votes, promised, failed, chosen_before, lock >>

\* The process is killed while no write of the file is in progress.
Kill(a) ==
    /\ Up(a)
    /\ Exit(a)
    /\ UNCHANGED << state, disk, stdout, msgs, votes, promised, last, chosen_before, lock >>

\* The process is killed while handle_request writes the file: the handler
\* has run, no response is sent.
KillInHandler(a, m) ==
    /\ Up(a)
    /\ LET r == rpc(m.endpoint, m.payload, state[a])
       IN  /\ state' = [state EXCEPT ![a] = r.state]
           /\ \E file \in unfinished_write(disk[a], r.disk) :
                disk' = [disk EXCEPT ![a] = file]
           /\ stdout' = [stdout EXCEPT ![a] = stdout[a] \o r.printed]
           /\ last' = Operation(a, m.endpoint, Some(m.payload), r.state, "killed")
    /\ Exit(a)
    /\ UNCHANGED << msgs, votes, promised, chosen_before, lock >>

\* The process is killed while propose writes the file (line 148): no
\* message carrying the new number has been sent.
KillInPropose(p) ==
    /\ pc[p] = "persist"
    /\ \E file \in unfinished_write(disk[p], write(state[p])) :
         disk' = [disk EXCEPT ![p] = file]
    /\ last' = Operation(p, "propose", None, state[p], "killed")
    /\ Exit(p)
    /\ UNCHANGED << state, stdout, msgs, votes, promised, chosen_before, lock >>

\* state::write fails in handle_request (line 174): the ? returns the error
\* to the server, which drops the connection and goes on serving; the
\* handler's changes stay in memory.
HandlerWriteFails(a, m) ==
    /\ Up(a)
    /\ LET r == rpc(m.endpoint, m.payload, state[a])
       IN  /\ state' = [state EXCEPT ![a] = r.state]
           /\ \E file \in unfinished_write(disk[a], r.disk) :
                disk' = [disk EXCEPT ![a] = file]
           /\ stdout' = [stdout EXCEPT ![a] = stdout[a] \o r.printed]
           /\ last' = Operation(a, m.endpoint, Some(m.payload), r.state, "failed")
    /\ failed' = [failed EXCEPT ![a] = TRUE]
    /\ boot' = None
    /\ UNCHANGED << proposer_vars, votes, promised, chosen_before, lock >>

\* state::write fails in propose (line 148): propose returns the error, and
\* the process ends with it.
ProposeWriteFails(p) ==
    /\ pc[p] = "persist"
    /\ \E file \in unfinished_write(disk[p], write(state[p])) :
         disk' = [disk EXCEPT ![p] = file]
    /\ last' = Operation(p, "propose", None, state[p], "failed")
    /\ Exit(p)
    /\ UNCHANGED << state, stdout, msgs, votes, promised, chosen_before, lock >>

\* The process is started again: run reads the state file.
Restart(a) ==
    /\ ~Up(a)
    /\ LET r == run(disk[a])
       IN  /\ state' = [state EXCEPT ![a] = r.state]
           /\ boot' = Some([node |-> a, read |-> r.result])
    /\ pc' = [pc EXCEPT ![a] = IF is_some(proposal[a]) THEN "start" ELSE "off"]
    /\ stdout' = [stdout EXCEPT ![a] = <<>>]
    /\ UNCHANGED << disk, msgs, proposal_number, new_value, responses, votes,
                    promised, last, failed, chosen_before, lock >>

NextCrash ==
    \/ \E a \in Subject, m \in Requests : Answer(a, m)
    \/ \E a \in Subject : Kill(a)
    \/ \E a \in Subject, m \in Requests : KillInHandler(a, m)
    \/ \E a \in Subject : Restart(a)

SpecCrash == Init /\ [][NextCrash]_vars

----------------------------------------------------------------------------
\* A proposing agent over the lifetimes of its process, before any other
\* agent answers: propose takes a number, writes the file and sends its
\* prepare, which the agent's own acceptor serves; a write of the file can
\* fail or be cut short by a kill.

\* The requests that reach the proposing agent: the requests it has sent
\* itself, and the choose of a proposer that has finished.
Incoming == msgs \cup { ChooseRequest(v) : v \in Values }

NextPropose ==
    \/ \E p \in Proposers : TakeNumber(p)
    \/ \E p \in Proposers : Alone(p) /\ PersistAndPrepare(p)
    \/ \E p \in Proposers, m \in Incoming : Alone(p) /\ Answer(p, m)
    \/ \E p \in Proposers, m \in Incoming : Alone(p) /\ HandlerWriteFails(p, m)
    \/ \E p \in Proposers : Alone(p) /\ ProposeWriteFails(p)
    \/ \E p \in Proposers : Alone(p) /\ KillInPropose(p)
    \/ \E p \in Proposers : Alone(p) /\ Kill(p)
    \/ \E p \in Proposers, m \in Incoming : Alone(p) /\ KillInHandler(p, m)
    \/ \E p \in Proposers : Alone(p) /\ Restart(p)

SpecPropose == Init /\ [][NextPropose]_vars

----------------------------------------------------------------------------
\* Proposal numbers: every agent takes number after number, as the loop of
\* propose does attempt after attempt; proposal_number[p] is the number the
\* latest call returned.

\* The model follows each agent for MaxRound numbers.
MaxRound == 4

NextNumber(p) ==
    /\ state[p].next_round < MaxRound
    /\ LET g == generate_proposal_number(p, state[p])
       IN  /\ state' = [state EXCEPT ![p] = g.state]
           /\ proposal_number' = [proposal_number EXCEPT ![p] = Some(g.proposal_number)]
    /\ UNCHANGED << disk, stdout, msgs, pc, new_value, responses, votes, promised,
                    last, boot, failed, chosen_before, lock >>

NextNumbers == \E p \in Nodes : NextNumber(p)

SpecNumbers == Init /\ [][NextNumbers]_vars

----------------------------------------------------------------------------
\* The order of proposal numbers: cmp applied to the numbers of every round and
\* address up to MaxField; last holds the numbers compared and the orderings
\* cmp gave.

\* The rounds, ips and ports compared are 0..MaxField.
MaxField == 1

Compared ==
    { [round |-> r, proposer_address |-> [ip |-> i, port |-> t]] :
        r \in 0..MaxField, i \in 0..MaxField, t \in 0..MaxField }

Compare(x, y, z) ==
    /\ last = None
    /\ last' = Some([ self |-> x, other |-> y, third |-> z,
                      xy |-> cmp(x, y), yx |-> cmp(y, x),
                      yz |-> cmp(y, z), xz |-> cmp(x, z) ])
    /\ UNCHANGED << state, disk, stdout, msgs, pc, proposal_number, new_value,
                    responses, votes, promised, boot, failed, chosen_before, lock >>

NextOrder == \E x \in Compared, y \in Compared, z \in Compared : Compare(x, y, z)

SpecOrder == Init /\ [][NextOrder]_vars

----------------------------------------------------------------------------
\* One proposer: only agent Sole runs propose, every agent stays up, and the
\* network, which may still delay and repeat requests and lose responses,
\* eventually brings every agent's response to each send that is waiting
\* (send retries until it has one).  With nobody to preempt it the proposer
\* never starts over.

Sole == 1

\* The response of agent a reaches the send of the proposer that waits for it.
Answered(a) ==
    \/ Respond(a, Sole)
    \/ SendAccept(a, Sole)
    \/ SendChoose(a, Sole)
    \/ Return(a, Sole)

NextLive ==
    \/ GenerateProposalNumber(Sole)
    \/ PersistAndPrepare(Sole)
    \/ \E a \in Nodes, m \in msgs : Serve(a, m)
    \/ \E a \in Nodes : Respond(a, Sole)
    \/ \E a \in Nodes : SendAccept(a, Sole)
    \/ \E a \in Nodes : SendChoose(a, Sole)
    \/ \E a \in Nodes : Return(a, Sole)

\* The runtime runs propose whenever it can go on, and every send that waits
\* is eventually answered.
FairLive ==
    /\ WF_vars(GenerateProposalNumber(Sole))
    /\ WF_vars(PersistAndPrepare(Sole))
    /\ \A a \in Nodes : WF_vars(Answered(a))

SpecLive == Init /\ [][NextLive]_vars /\ FairLive

----------------------------------------------------------------------------
\* Single-agent clusters: every agent that is given a value runs as a cluster
\* of its own, nodes = [self].  Its propose sends every request to its own
\* server, whose handler needs the write lock of the State propose works on.
\* The lock is followed across the awaits: propose holds the read lock while
\* it writes the state file, a handler holds the write lock from its start to
\* the end of its write of the file.

\* nodes.len() / 2 + 1 for nodes = [self]
quorum_of_one == (1 \div 2) + 1

\* The guard of the persist block is kept until propose returns.
after_persist_kept(p) == Some([by |-> "propose"])

\* propose, line 149: the persist block ends and drops its guard.
after_persist(p) == None

\* The requests p has sent to its own server in this attempt.
Own(p) ==
    { m \in msgs :
        \/ m.endpoint = PREPARE_ENDPOINT /\ m.payload.proposal_number = proposal_number[p]
        \/ m.endpoint = ACCEPT_ENDPOINT /\ Some(m.payload.proposal[1]) = proposal_number[p]
        \/ m.endpoint = CHOOSE_ENDPOINT /\ pc[p] \in {"choose", "done"}
                                        /\ Some(m.payload.value) = new_value[p] }

\* propose, lines 137-142: state.write().await is granted when nobody holds
\* the lock; the guard is dropped when the number has been generated.
SingleGenerate(p) ==
    /\ lock[p] = None
    /\ GenerateProposalNumber(p)

\* propose, lines 145-148: state.read().await is granted, the write of the
\* state file begins.
SinglePersistBegin(p) ==
    /\ pc[p] = "persist"
    /\ lock[p] = None
    /\ lock' = [lock EXCEPT ![p] = Some([by |-> "propose"])]
    /\ UNCHANGED << state, disk, stdout, msgs, pc, proposal_number, new_value,
                    responses, votes, promised, last, boot, failed, chosen_before >>

\* propose, lines 148-167: the file is written, the block ends, the prepare
\* request goes to the one node.
SinglePersistEnd(p) ==
    /\ pc[p] = "persist"
    /\ lock[p] = Some([by |-> "propose"])
    /\ disk' = [disk EXCEPT ![p] = write(state[p])]
    /\ msgs' = msgs \cup {PrepareRequest(proposal_number[p])}
    /\ responses' = [responses EXCEPT ![p] = NoResponses]
    /\ pc' = [pc EXCEPT ![p] = "prepare"]
    /\ lock' = [lock EXCEPT ![p] = after_persist(p)]
    /\ UNCHANGED << state, stdout, proposal_number, new_value, votes, promised,
                    last, boot, failed, chosen_before >>

\* handle_request, line 171: a request has reached p's server and
\* context.state.write().await is granted.
SingleHandleBegin(p, m) ==
    /\ lock[p] = None
    /\ lock' = [lock EXCEPT ![p] = Some([by |-> "handle_request", request |-> m])]
    /\ UNCHANGED << state, disk, stdout, msgs, pc, proposal_number, new_value,
                    responses, votes, promised, last, boot, failed, chosen_before >>

\* handle_request, lines 172-184: the handler runs, the file is written, the
\* guard is dropped.
SingleHandle(p) ==
    /\ is_some(lock[p])
    /\ unwrap(lock[p]).by = "handle_request"
    /\ Deliver(p, unwrap(lock[p]).request)
    /\ lock' = [lock EXCEPT ![p] = None]

\* The response is lost, or the send it answers was dropped: send tries again.
SingleHandleEnd(p) ==
    /\ SingleHandle(p)
    /\ UNCHANGED << msgs, pc, proposal_number, new_value, responses, promised,
                    last, boot, failed, chosen_before >>

\* propose, lines 161-225 with nodes = [self]: the response is the whole
\* quorum of the broadcast that waits for it, and propose runs on to its next
\* await.
SingleResume(p) ==
    /\ SingleHandle(p)
    /\ Request(p) = Some(unwrap(lock[p]).request)
    /\ Cardinality(Responded(p) \cup {p}) = quorum_of_one
    /\ responses' = [responses EXCEPT ![p] = NoResponses]
    /\ CASE pc[p] = "prepare" ->
               /\ \E v \in NewValues(p, With(p, p)) :
                    /\ new_value' = [new_value EXCEPT ![p] = Some(v)]
                    /\ msgs' = msgs \cup {AcceptRequest(unwrap(proposal_number[p]), v)}
               /\ pc' = [pc EXCEPT ![p] = "accept"]
               /\ UNCHANGED << proposal_number, chosen_before >>
         [] pc[p] = "accept" /\ AllAccepted(p, With(p, p)) ->
               /\ msgs' = msgs \cup {ChooseRequest(unwrap(new_value[p]))}
               /\ pc' = [pc EXCEPT ![p] = "choose"]
               /\ UNCHANGED << proposal_number, new_value, chosen_before >>
         [] pc[p] = "accept" /\ ~AllAccepted(p, With(p, p)) ->
               /\ proposal_number' = [proposal_number EXCEPT ![p] = None]
               /\ new_value' = [new_value EXCEPT ![p] = None]
               /\ chosen_before' = [chosen_before EXCEPT ![p] = {}]
               /\ pc' = [pc EXCEPT ![p] = "start"]
               /\ UNCHANGED msgs
         [] pc[p] = "choose" ->
               /\ pc' = [pc EXCEPT ![p] = "done"]
               /\ chosen_before' = [chosen_before EXCEPT ![p] = {}]
               /\ UNCHANGED << msgs, proposal_number, new_value >>
    /\ UNCHANGED << promised, last, boot, failed >>

NextSingle ==
    \/ \E p \in Proposers : SingleGenerate(p)
    \/ \E p \in Proposers : SinglePersistBegin(p)
    \/ \E p \in Proposers : SinglePersistEnd(p)
    \/ \E p \in Proposers : \E m \in Own(p) : SingleHandleBegin(p, m)
    \/ \E p \in Proposers : SingleHandleEnd(p)
    \/ \E p \in Proposers : SingleResume(p)

\* propose and the handlers run on whenever they can; tokio's RwLock is fair
\* and send retries until it has a response, so the request a send waits on
\* gets the lock and its response gets back.
FairSingle ==
    \A p \in Proposers :
        /\ WF_vars(SingleGenerate(p))
        /\ SF_vars(SinglePersistBegin(p))
        /\ WF_vars(SinglePersistEnd(p))
        /\ SF_vars(\E m \in Own(p) : Request(p) = Some(m) /\ SingleHandleBegin(p, m))
        /\ WF_vars(SingleHandleEnd(p) \/ SingleResume(p))
        /\ SF_vars(SingleResume(p))

SpecSingle == Init /\ [][NextSingle]_vars /\ FairSingle

----------------------------------------------------------------------------
\* The value of an attempt: a proposer takes its number, persists, sends its
\* prepare, and the quorum of its broadcast returns with any responses agents
\* can give; propose picks the value and sends its accept.  last holds the
\* responses the quorum returned.

PrepareResponses ==
    {[accepted_proposal |-> None]}
        \cup {[accepted_proposal |-> Some(<<n, v>>)] : n \in ProposalNumbers, v \in Values}

\* What broadcast_quorum can return for a prepare: the responses of
\* nodes.len() / 2 + 1 of the nodes.
PrepareQuorums ==
    UNION { { [a \in Nodes |-> IF a \in Q THEN Some(f[a]) ELSE None] : f \in [Q -> PrepareResponses] } :
              Q \in { R \in SUBSET Nodes : Cardinality(R) = quorum } }

\* propose, lines 161-202, with the prepare responses rs.
PickUp(p, rs) ==
    /\ pc[p] = "prepare"
    /\ \E v \in NewValues(p, rs) :
         /\ new_value' = [new_value EXCEPT ![p] = Some(v)]
         /\ msgs' = msgs \cup {AcceptRequest(unwrap(proposal_number[p]), v)}
    /\ responses' = [responses EXCEPT ![p] = NoResponses]
    /\ pc' = [pc EXCEPT ![p] = "accept"]
    /\ last' = Some([node |-> p, prepare_responses |-> rs])
    /\ UNCHANGED << state, disk, stdout, proposal_number, votes, promised, boot,
                    failed, chosen_before, lock >>

NextPick ==
    \/ \E p \in Proposers : TakeNumber(p)
    \/ \E p \in Proposers : Alone(p) /\ PersistAndPrepare(p)
    \/ \E p \in Proposers, rs \in PrepareQuorums : Alone(p) /\ PickUp(p, rs)

SpecPick == Init /\ [][NextPick]_vars

----------------------------------------------------------------------------
\* The outcome of an attempt: after its accept broadcast the quorum returns
\* with any responses agents can give, and propose notifies the nodes or
\* starts over.  last holds the responses and the proposal they answered.

AcceptResponses == {[min_proposal_number |-> n] : n \in ProposalNumbers}

\* What broadcast_quorum can return for an accept.
AcceptQuorums ==
    UNION { { [a \in Nodes |-> IF a \in Q THEN Some(f[a]) ELSE None] : f \in [Q -> AcceptResponses] } :
              Q \in { R \in SUBSET Nodes : Cardinality(R) = quorum } }

\* propose, lines 194-225, with the accept responses rs.
Decide(p, rs) ==
    /\ pc[p] = "accept"
    /\ IF AllAccepted(p, rs)
       THEN /\ msgs' = msgs \cup {ChooseRequest(unwrap(new_value[p]))}
            /\ pc' = [pc EXCEPT ![p] = "choose"]
            /\ UNCHANGED << proposal_number, new_value, chosen_before >>
       ELSE /\ proposal_number' = [proposal_number EXCEPT ![p] = None]
            /\ new_value' = [new_value EXCEPT ![p] = None]
            /\ chosen_before' = [chosen_before EXCEPT ![p] = {}]
            /\ pc' = [pc EXCEPT ![p] = "start"]
            /\ UNCHANGED msgs
    /\ responses' = [responses EXCEPT ![p] = NoResponses]
    /\ last' = Some([node |-> p, accept_responses |-> rs])
    /\ UNCHANGED << state, disk, stdout, votes, promised, boot, failed, lock >>

NextDecide ==
    \/ \E p \in Proposers : TakeNumber(p)
    \/ \E p \in Proposers : Alone(p) /\ PersistAndPrepare(p)
    \/ \E p \in Proposers, rs \in PrepareQuorums : Alone(p) /\ PickUp(p, rs)
    \/ \E p \in Proposers, rs \in AcceptQuorums : Alone(p) /\ Decide(p, rs)

SpecDecide == Init /\ [][NextDecide]_vars

----------------------------------------------------------------------------
\* An unreachable peer: one proposer, and the agent that only accepts may go
\* down for good at any moment.  A request to an agent that is down fails
\* (try_to_send returns Err); send logs the error, sleeps and tries again, so
\* its future stays pending.  last holds the latest try that failed.

\* send, lines 77-92: the try of p's request to agent a fails.
TryFails(a, p) ==
    /\ ~Up(a)
    /\ Pending(p, a)
    /\ last' = Some([ node |-> p, peer |-> a, endpoint |-> unwrap(Request(p)).endpoint,
                      result |-> "error" ])
    /\ UNCHANGED << state, disk, stdout, msgs, pc, proposal_number, new_value,
                    responses, votes, promised, boot, failed, chosen_before, lock >>

NextNotify ==
    \/ GenerateProposalNumber(Sole)
    \/ PersistAndPrepare(Sole)
    \/ \E a \in Nodes, m \in msgs : Up(a) /\ Serve(a, m)
    \/ \E a \in Nodes : Up(a) /\ Respond(a, Sole)
    \/ \E a \in Nodes : Up(a) /\ SendAccept(a, Sole)
    \/ \E a \in Nodes : Up(a) /\ SendChoose(a, Sole)
    \/ \E a \in Nodes : Up(a) /\ Return(a, Sole)
    \/ \E a \in Subject : Kill(a)
    \/ \E a \in Nodes : TryFails(a, Sole)

SpecNotify == Init /\ [][NextNotify]_vars

----------------------------------------------------------------------------
\* broadcast_quorum.  One send per entry of nodes, polled in any order; the
\* stream is cut after nodes.len() / 2 + 1 responses and collected.  last
\* holds what the latest broadcast_quorum returned and what the one before it
\* returned, each as the response per entry of nodes, None for the entries
\* whose send was dropped unanswered.

\* What the broadcast_quorum before this one returned.
Earlier == IF is_some(last) THEN Some(unwrap(last).returned) ELSE None

\* propose, lines 161-225: the response of agent a completes p's quorum;
\* broadcast_quorum returns and propose runs on to its next await.
Take(a, p) ==
    /\ pc[p] \in {"prepare", "accept"}
    /\ Pending(p, a)
    /\ Complete(p, With(p, a))
    /\ HandleRequest(a, p)
    /\ last' = Some([ node |-> p, endpoint |-> unwrap(Request(p)).endpoint,
                      returned |-> With(p, a), earlier |-> Earlier ])
    /\ responses' = [responses EXCEPT ![p] = NoResponses]
    /\ IF pc[p] = "prepare"
       THEN /\ \E v \in NewValues(p, With(p, a)) :
                 /\ new_value' = [new_value EXCEPT ![p] = Some(v)]
                 /\ msgs' = msgs \cup {AcceptRequest(unwrap(proposal_number[p]), v)}
            /\ pc' = [pc EXCEPT ![p] = "accept"]
            /\ UNCHANGED << proposal_number, chosen_before >>
       ELSE IF AllAccepted(p, With(p, a))
            THEN /\ msgs' = msgs \cup {ChooseRequest(unwrap(new_value[p]))}
                 /\ pc' = [pc EXCEPT ![p] = "choose"]
                 /\ UNCHANGED << proposal_number, new_value, chosen_before >>
            ELSE /\ proposal_number' = [proposal_number EXCEPT ![p] = None]
                 /\ new_value' = [new_value EXCEPT ![p] = None]
                 /\ chosen_before' = [chosen_before EXCEPT ![p] = {}]
                 /\ pc' = [pc EXCEPT ![p] = "start"]
                 /\ UNCHANGED msgs
    /\ UNCHANGED << promised, boot, failed, lock >>

NextQuorum ==
    \/ \E p \in Proposers : GenerateProposalNumber(p)
    \/ \E p \in Proposers : PersistAndPrepare(p)
    \/ \E a \in Nodes, p \in Proposers : Respond(a, p)
    \/ \E a \in Nodes, p \in Proposers : Take(a, p)
    \/ \E a \in Nodes, p \in Proposers : Return(a, p)

SpecQuorum == Init /\ [][NextQuorum]_vars

----------------------------------------------------------------------------
\* send.  One call of send, in rpc.rs or in proposer.rs, to a peer whose tries
\* fail any number of times (bounded by MaxRetries) before one succeeds.
\* Durations are in milliseconds.  last holds the call: the file of the send,
\* the answer the peer gives once a try reaches it, the local delay, where
\* the loop stands, every delay slept so far, and what send returned.

MaxRetries == 7

Files == {"rpc.rs", "proposer.rs"}

EXPONENTIAL_BACKOFF_MIN(file) == IF file = "rpc.rs" THEN 50 ELSE 100

EXPONENTIAL_BACKOFF_MAX(file) == IF file = "rpc.rs" THEN 1000 ELSE 2000

EXPONENTIAL_BACKOFF_MULTIPLIER == 2

\* std::cmp::min
min(x, y) == IF x <= y THEN x ELSE y

\* The delay keeps doubling.
next_delay_uncapped(file, delay) == delay * EXPONENTIAL_BACKOFF_MULTIPLIER

\* delay = min(delay * EXPONENTIAL_BACKOFF_MULTIPLIER, EXPONENTIAL_BACKOFF_MAX)
next_delay(file, delay) ==
    min(delay * EXPONENTIAL_BACKOFF_MULTIPLIER, EXPONENTIAL_BACKOFF_MAX(file))

\* What a peer can answer.
Answers == [min_proposal_number : ProposalNumbers] \cup [accepted_proposal : {None}]

\* send is called: let mut delay = EXPONENTIAL_BACKOFF_MIN, then the first try.
CallSend(file, answer) ==
    /\ last = None
    /\ last' = Some([ file |-> file, answer |-> answer,
                      delay |-> EXPONENTIAL_BACKOFF_MIN(file), at |-> "try",
                      slept |-> << >>, returned |-> None ])
    /\ UNCHANGED << state, disk, stdout, msgs, pc, proposal_number, new_value,
                    responses, votes, promised, boot, failed, chosen_before, lock >>

Sending == is_some(last) /\ "slept" \in DOMAIN unwrap(last)

\* try_to_send returns Err: the error is logged and the loop goes on to its
\* sleep.
TryErr ==
    /\ Sending
    /\ unwrap(last).at = "try"
    /\ Len(unwrap(last).slept) < MaxRetries
    /\ last' = Some([unwrap(last) EXCEPT !.at = "sleep"])
    /\ UNCHANGED << state, disk, stdout, msgs, pc, proposal_number, new_value,
                    responses, votes, promised, boot, failed, chosen_before, lock >>

\* sleep(delay).await, the new delay, and the next try.
SleepAndRetry ==
    /\ Sending
    /\ unwrap(last).at = "sleep"
    /\ last' = Some([unwrap(last) EXCEPT
                        !.slept = Append(@, unwrap(last).delay),
                        !.delay = next_delay(unwrap(last).file, @),
                        !.at = "try"])
    /\ UNCHANGED << state, disk, stdout, msgs, pc, proposal_number, new_value,
                    responses, votes, promised, boot, failed, chosen_before, lock >>

\* try_to_send returns Ok(response): send returns the response.
TryOk ==
    /\ Sending
    /\ unwrap(last).at = "try"
    /\ last' = Some([unwrap(last) EXCEPT
                        !.returned = Some(unwrap(last).answer),
                        !.at = "returned"])
    /\ UNCHANGED << state, disk, stdout, msgs, pc, proposal_number, new_value,
                    responses, votes, promised, boot, failed, chosen_before, lock >>

NextBackoff ==
    \/ \E file \in Files, answer \in Answers : CallSend(file, answer)
    \/ TryErr
    \/ SleepAndRetry
    \/ TryOk

\* The call is made, the runtime polls the future, and the peer answers in
\* the end: a try that is made again and again succeeds at some time.
FairBackoff ==
    /\ WF_vars(\E file \in Files, answer \in Answers : CallSend(file, answer))
    /\ WF_vars(SleepAndRetry)
    /\ SF_vars(TryOk)

SpecBackoff == Init /\ [][NextBackoff]_vars /\ FairBackoff

----------------------------------------------------------------------------
\* One agent's lock and state file, step by step.  Any client posts any
\* request to the agent Sole; each request is served by a task of its own,
\* which takes the write lock, runs the handler and starts the write of the
\* state file, and drops its guard when the write has ended.  The agent's
\* own propose takes the write lock for a number and the read lock for its
\* write.  What the other agents answer is left open: an attempt that has
\* sent its prepare may be preempted and start over.  last holds the writes
\* of the state file that have begun and not ended, each with the blob that
\* was serialized when it began.

Writes == IF is_some(last) /\ "writes" \in DOMAIN unwrap(last) THEN unwrap(last).writes ELSE {}

\* The guard is dropped when the handler function returns, and the file is
\* written without it.
after_handler_dropped(a) == None

\* handle_request, lines 171-174: guard lives on while the write is awaited.
after_handler(a) == lock[a]

\* The write of propose begins without a guard.
persist_guard_none(p) == lock[p]

\* propose, line 147: let guard = state.read().await
persist_guard(p) == Some([by |-> "propose"])

\* handle_request, lines 172-174: the handler function runs on the locked
\* state, and state::write serializes the durable part and begins.
HandlerRun(a) ==
    /\ is_some(lock[a])
    /\ unwrap(lock[a]).by = "handle_request"
    /\ \A w \in Writes : w.node = a => w.by # "handle_request"
    /\ LET m == unwrap(lock[a]).request
           r == rpc(m.endpoint, m.payload, state[a])
       IN  /\ state' = [state EXCEPT ![a] = r.state]
           /\ stdout' = [stdout EXCEPT ![a] = stdout[a] \o r.printed]
           /\ last' = Some([writes |-> Writes \cup
                               {[node |-> a, by |-> "handle_request", request |-> m, file |-> r.disk]}])
    /\ lock' = [lock EXCEPT ![a] = after_handler(a)]
    /\ UNCHANGED << disk, msgs, pc, proposal_number, new_value, responses, votes,
                    promised, boot, failed, chosen_before >>

\* handle_request, lines 174-184: the write has ended, the response goes out
\* and the guard is dropped.
HandlerWritten(a, w) ==
    /\ w \in Writes
    /\ w.node = a
    /\ w.by = "handle_request"
    /\ disk' = [disk EXCEPT ![a] = w.file]
    /\ last' = Some([writes |-> Writes \ {w}])
    /\ lock' = [lock EXCEPT ![a] =
                    IF lock[a] = Some([by |-> "handle_request", request |-> w.request])
                    THEN None ELSE lock[a]]
    /\ UNCHANGED << state, stdout, msgs, pc, proposal_number, new_value, responses,
                    votes, promised, boot, failed, chosen_before >>

\* propose, lines 145-148: the read lock is granted and state::write
\* serializes the state and begins.
ProposePersistBegin(p) ==
    /\ pc[p] = "persist"
    /\ lock[p] = None
    /\ \A w \in Writes : w.node = p => w.by # "propose"
    /\ lock' = [lock EXCEPT ![p] = persist_guard(p)]
    /\ last' = Some([writes |-> Writes \cup
                        {[node |-> p, by |-> "propose", request |-> None, file |-> write(state[p])]}])
    /\ UNCHANGED << state, disk, stdout, msgs, pc, proposal_number, new_value,
                    responses, votes, promised, boot, failed, chosen_before >>

\* propose, lines 148-167: the write has ended, the guard is dropped and the
\* prepare request goes out.
ProposePersistEnd(p, w) ==
    /\ pc[p] = "persist"
    /\ w \in Writes
    /\ w.node = p
    /\ w.by = "propose"
    /\ disk' = [disk EXCEPT ![p] = w.file]
    /\ last' = Some([writes |-> Writes \ {w}])
    /\ lock' = [lock EXCEPT ![p] = IF lock[p] = Some([by |-> "propose"]) THEN after_persist(p) ELSE lock[p]]
    /\ msgs' = msgs \cup {PrepareRequest(proposal_number[p])}
    /\ responses' = [responses EXCEPT ![p] = NoResponses]
    /\ pc' = [pc EXCEPT ![p] = "prepare"]
    /\ UNCHANGED << state, stdout, proposal_number, new_value, votes, promised,
                    boot, failed, chosen_before >>

\* propose, lines 222-225: the attempt was preempted; start over.
Preempted(p) ==
    /\ pc[p] = "prepare"
    /\ proposal_number' = [proposal_number EXCEPT ![p] = None]
    /\ pc' = [pc EXCEPT ![p] = "start"]
    /\ UNCHANGED << state, disk, stdout, msgs, new_value, responses, votes, promised,
                    last, boot, failed, chosen_before, lock >>

NextSerial ==
    \/ SingleGenerate(Sole)
    \/ ProposePersistBegin(Sole)
    \/ \E w \in Writes : ProposePersistEnd(Sole, w)
    \/ Preempted(Sole)
    \/ \E m \in Requests : SingleHandleBegin(Sole, m)
    \/ HandlerRun(Sole)
    \/ \E w \in Writes : HandlerWritten(Sole, w)

SpecSerial == Init /\ [][NextSerial]_vars

----------------------------------------------------------------------------
\* Properties

\* Every value some agent has learned: printed on its learn sink, or held as
\* its chosen_value.
Learned ==
    UNION { { stdout[a][i] : i \in DOMAIN stdout[a] } : a \in Nodes }
      \cup { unwrap(state[a].chosen_value) : a \in { b \in Nodes : is_some(state[b].chosen_value) } }

\* C1 (Paxos safety): whatever the proposers do concurrently and however the
\* requests are delayed, repeated or reordered and the responses lost, no two
\* agents, and no agent at two moments, hold or have printed two distinct
\* chosen values.
C1_OneValueChosen == Cardinality(Learned) <= 1

\* Both proposers ran, with different values, both returned Ok and every agent
\* has learned the value.
C1_Witness ==
    /\ pc[1] = "done" /\ pc[2] = "done"
    /\ proposal[1] # proposal[2]
    /\ \A a \in Nodes : is_some(state[a].chosen_value)

ChosenByMajority ==
    \A a \in Nodes :
        is_some(state[a].chosen_value) =>
            \E n \in ProposalNumbers :
                Cardinality(Voters(<<n, unwrap(state[a].chosen_value)>>)) >= (Len(nodes) \div 2) + 1

ChosenStable ==
    \A a \in Nodes :
        is_some(state[a].chosen_value) => state'[a].chosen_value = state[a].chosen_value

\* C2: whenever an agent's chosen_value is set to v, some proposal (n, v) has
\* been accepted by at least floor(N/2)+1 of the N agents; and once set,
\* chosen_value never changes.
C2_ChosenByMajority == []ChosenByMajority /\ [][ChosenStable]_vars

\* An agent has learned a value although it never accepted a proposal itself.
C2_Witness ==
    \E a \in Nodes : is_some(state[a].chosen_value) /\ votes[a] = {}

\* The latest handler call was a call of this endpoint.
Called(endpoint) == is_some(last) /\ unwrap(last).endpoint = endpoint

\* The number of an optional accepted proposal (only where it is set).
number_of(accepted) == unwrap(accepted)[1]

\* C3 (promise keeping): once an acceptor has answered prepare(n), no later
\* call sets its accepted_proposal to a proposal numbered strictly below n.
C3_PromiseKept ==
    is_some(last) =>
        LET c == unwrap(last)
        IN  (c.after.accepted_proposal # c.before.accepted_proposal /\ is_some(promised[c.node]))
                => /\ is_some(c.after.accepted_proposal)
                   /\ ge(number_of(c.after.accepted_proposal), unwrap(promised[c.node]))

\* An accept numbered below an answered prepare arrived.
C3_Witness ==
    /\ Called(ACCEPT_ENDPOINT)
    /\ is_some(promised[unwrap(last).node])
    /\ lt(unwrap(last).request.proposal[1], unwrap(promised[unwrap(last).node]))

\* C4: min_proposal_number never decreases: once set it stays set, and every
\* prepare, accept or choose call leaves it greater than or equal to what it
\* was before the call.
C4_MinNeverDecreases ==
    is_some(last) =>
        LET c == unwrap(last)
        IN  is_some(c.before.min_proposal_number)
                => /\ is_some(c.after.min_proposal_number)
                   /\ ge(unwrap(c.after.min_proposal_number), unwrap(c.before.min_proposal_number))

\* A prepare with a number below min_proposal_number was served.
C4_Witness ==
    /\ Called(PREPARE_ENDPOINT)
    /\ is_some(unwrap(last).request.proposal_number)
    /\ is_some(unwrap(last).before.min_proposal_number)
    /\ lt(unwrap(unwrap(last).request.proposal_number), unwrap(unwrap(last).before.min_proposal_number))

\* C5: in every reachable state of an agent, if accepted_proposal is set then
\* min_proposal_number is set and the accepted number is at most
\* min_proposal_number.
C5_AcceptedBelowMin ==
    \A a \in Nodes :
        is_some(state[a].accepted_proposal)
            => /\ is_some(state[a].min_proposal_number)
               /\ le(number_of(state[a].accepted_proposal), unwrap(state[a].min_proposal_number))

\* An agent that accepted a proposal and then promised a higher number.
C5_Witness ==
    \E a \in Nodes :
        /\ is_some(state[a].accepted_proposal)
        /\ lt(number_of(state[a].accepted_proposal), unwrap(state[a].min_proposal_number))

\* C6: accept((n, v)) on an agent whose min_proposal_number is unset or at most
\* n sets min_proposal_number to n and accepted_proposal to (n, v).
C6_AcceptSuccess ==
    Called(ACCEPT_ENDPOINT) =>
        LET c == unwrap(last)
            n == c.request.proposal[1]
        IN  (\/ ~is_some(c.before.min_proposal_number)
             \/ le(unwrap(c.before.min_proposal_number), n))
                => /\ c.after.min_proposal_number = Some(n)
                   /\ c.after.accepted_proposal = Some(c.request.proposal)

\* An accept carrying exactly the promised number, over an older accepted
\* proposal.
C6_Witness ==
    /\ Called(ACCEPT_ENDPOINT)
    /\ unwrap(last).before.min_proposal_number = Some(unwrap(last).request.proposal[1])
    /\ unwrap(last).before.accepted_proposal # Some(unwrap(last).request.proposal)
    /\ unwrap(last).after.accepted_proposal = Some(unwrap(last).request.proposal)

\* C7: accept((n, v)) on an agent whose min_proposal_number is strictly above n
\* leaves min_proposal_number, accepted_proposal, next_round and chosen_value
\* as they were.
C7_AcceptFailure ==
    Called(ACCEPT_ENDPOINT) =>
        LET c == unwrap(last)
        IN  (/\ is_some(c.before.min_proposal_number)
             /\ gt(unwrap(c.before.min_proposal_number), c.request.proposal[1]))
                => /\ c.after.min_proposal_number = c.before.min_proposal_number
                   /\ c.after.accepted_proposal = c.before.accepted_proposal
                   /\ c.after.next_round = c.before.next_round
                   /\ c.after.chosen_value = c.before.chosen_value

\* A rejected accept on an agent that holds an accepted proposal, a chosen
\* value and a used round.
C7_Witness ==
    /\ Called(ACCEPT_ENDPOINT)
    /\ is_some(unwrap(last).before.min_proposal_number)
    /\ gt(unwrap(unwrap(last).before.min_proposal_number), unwrap(last).request.proposal[1])
    /\ is_some(unwrap(last).before.accepted_proposal)
    /\ is_some(unwrap(last).before.chosen_value)
    /\ unwrap(last).before.next_round > 0

\* The call accepted the request's proposal.
Accepted(c) ==
    /\ c.after.min_proposal_number = Some(c.request.proposal[1])
    /\ c.after.accepted_proposal = Some(c.request.proposal)

\* C8: the number accept((n, v)) returns is min_proposal_number after the call;
\* it equals n exactly when the proposal was accepted and is strictly greater
\* than n exactly when it was rejected.
C8_AcceptResponse ==
    Called(ACCEPT_ENDPOINT) =>
        LET c == unwrap(last)
            n == c.request.proposal[1]
        IN  /\ Some(c.response.min_proposal_number) = c.after.min_proposal_number
            /\ Accepted(c) <=> c.response.min_proposal_number = n
            /\ ~Accepted(c) <=> gt(c.response.min_proposal_number, n)

\* A rejected accept of the proposal the agent already holds (it has promised
\* a higher number since).
C8_Witness ==
    /\ Called(ACCEPT_ENDPOINT)
    /\ unwrap(last).before.accepted_proposal = Some(unwrap(last).request.proposal)
    /\ gt(unwrap(last).response.min_proposal_number, unwrap(last).request.proposal[1])

\* C9: prepare(n) sets min_proposal_number to n when it was unset or strictly
\* below n, and leaves it unchanged when it was already at least n.
C9_PrepareSetsMin ==
    (Called(PREPARE_ENDPOINT) /\ is_some(unwrap(last).request.proposal_number)) =>
        LET c == unwrap(last)
            n == unwrap(c.request.proposal_number)
        IN  IF \/ ~is_some(c.before.min_proposal_number)
               \/ lt(unwrap(c.before.min_proposal_number), n)
            THEN c.after.min_proposal_number = Some(n)
            ELSE c.after.min_proposal_number = c.before.min_proposal_number

\* A prepare that raised a min_proposal_number that was already set.
C9_Witness ==
    /\ Called(PREPARE_ENDPOINT)
    /\ is_some(unwrap(last).request.proposal_number)
    /\ is_some(unwrap(last).before.min_proposal_number)
    /\ lt(unwrap(unwrap(last).before.min_proposal_number), unwrap(unwrap(last).request.proposal_number))

\* C10: prepare never modifies accepted_proposal, next_round or chosen_value
\* and returns the agent's accepted_proposal, unset when nothing was accepted;
\* a prepare without a proposal number leaves min_proposal_number unchanged
\* too.
C10_PrepareFrame ==
    Called(PREPARE_ENDPOINT) =>
        LET c == unwrap(last)
        IN  /\ c.after.accepted_proposal = c.before.accepted_proposal
            /\ c.after.next_round = c.before.next_round
            /\ c.after.chosen_value = c.before.chosen_value
            /\ c.response.accepted_proposal = c.before.accepted_proposal
            /\ ~is_some(c.request.proposal_number)
                  => c.after.min_proposal_number = c.before.min_proposal_number

\* A prepare without a number on an agent that holds a promise and an accepted
\* proposal.
C10_Witness ==
    /\ Called(PREPARE_ENDPOINT)
    /\ ~is_some(unwrap(last).request.proposal_number)
    /\ is_some(unwrap(last).before.min_proposal_number)
    /\ is_some(unwrap(last).response.accepted_proposal)

\* C11 (choose idempotence): the first choose(v) on an agent whose chosen_value
\* is unset sets chosen_value to v and prints v once; every later choose, with
\* the same or another value, leaves chosen_value unchanged and prints nothing,
\* so an agent never prints more than one line.
C11_ChooseOnce ==
    /\ \A a \in Nodes : Len(stdout[a]) <= 1
    /\ Called(CHOOSE_ENDPOINT) =>
          LET c == unwrap(last)
          IN  IF ~is_some(c.before.chosen_value)
              THEN /\ c.after.chosen_value = Some(c.request.value)
                   /\ c.printed = <<c.request.value>>
              ELSE /\ c.after.chosen_value = c.before.chosen_value
                   /\ c.printed = <<>>

\* A choose of another value than the one the agent has learned.
C11_Witness ==
    /\ Called(CHOOSE_ENDPOINT)
    /\ is_some(unwrap(last).before.chosen_value)
    /\ unwrap(last).before.chosen_value # Some(unwrap(last).request.value)
    /\ stdout[unwrap(last).node] # <<>>

\* A prepare or accept handler has changed a's durable state in this step.
Mutated(a) ==
    \/ state'[a].min_proposal_number # state[a].min_proposal_number
    \/ state'[a].accepted_proposal # state[a].accepted_proposal

Started(a) ==
    /\ is_some(boot)
    /\ unwrap(boot).node = a
    /\ is_some(last)
    /\ unwrap(last).node = a

\* The latest operation answered an accept request and accepted its proposal
\* (accept leaves min_proposal_number at the request's number exactly when it
\* accepts).
AnsweredAccept ==
    /\ unwrap(last).endpoint = ACCEPT_ENDPOINT
    /\ unwrap(last).result = "answered"
    /\ unwrap(last).after.min_proposal_number = Some(unwrap(unwrap(last).request).proposal[1])
    /\ unwrap(last).after.accepted_proposal = Some(unwrap(unwrap(last).request).proposal)

Recovered ==
    \A a \in Nodes :
        (Started(a) /\ AnsweredAccept) =>
            LET x == unwrap(unwrap(last).request).proposal
            IN  /\ state[a].min_proposal_number = Some(x[1])
                /\ state[a].accepted_proposal = Some(x)

PromiseSurvives ==
    \A a \in Nodes :
        (/\ Started(a) /\ AnsweredAccept
         /\ is_some(last')
         /\ unwrap(last').endpoint = PREPARE_ENDPOINT
         /\ unwrap(last').result = "answered"
         /\ lt(unwrap(unwrap(unwrap(last').request).proposal_number),
               unwrap(unwrap(last).request).proposal[1]))
            => state'[a].min_proposal_number = Some(unwrap(unwrap(last).request).proposal[1])

\* C13 (crash recovery preserves promises): when an agent has answered an
\* accept of (n, v), accepting it, and its process is then killed and started
\* again, the state the new process loads has min_proposal_number = n and
\* accepted_proposal = (n, v), and a prepare with a number below n that it
\* serves next leaves min_proposal_number at n.
C13_PromiseSurvivesCrash == []Recovered /\ [][PromiseSurvives]_vars

\* A process started from the file an accepted accept left.
C13_Witness ==
    \E a \in Nodes :
        /\ Started(a)
        /\ AnsweredAccept
        /\ unwrap(boot).read = "Ok"
        /\ Up(a)

\* C14 (atomic persist): when the process is killed during a write of the
\* state file, the next process loads either the durable state the file held
\* before the write or the new one, never an empty, partial or undecodable
\* record.
C14_AtomicPersist ==
    [][\A a \in Nodes :
         (/\ Up(a) /\ pc'[a] = "down"
          /\ disk'[a] # disk[a])
            => /\ run(disk'[a]).result # "InvalidData"
               /\ Durable(run(disk'[a]).state) \in {Durable(run(disk[a]).state), Durable(state'[a])}]_vars

\* C15: a process starts from the empty initial state only when the state
\* file is missing; when the file is there and does not decode, the read
\* reports InvalidData and the process does not go on to serve requests.
C15_CorruptFileStopsStartup ==
    is_some(boot) =>
        LET a == unwrap(boot).node
        IN  /\ (disk[a] # None /\ deserialize(unwrap(disk[a])) = None)
                  => unwrap(boot).read = "InvalidData"
            /\ (Up(a) /\ unwrap(boot).read # "Ok") => unwrap(boot).read = "NotFound"

\* C16: when a write of the state file fails in a handler or in propose, the
\* operation ends with an error and without a response, and the process
\* ends: no request is answered by a process in which a write has failed.
C16_FailedWriteEndsProcess ==
    \A a \in Nodes :
        (failed[a] /\ is_some(last) /\ unwrap(last).node = a) => unwrap(last).result = "failed"

\* C17 (volatile state is not persisted): a process that has just been
\* started has no chosen_value, whatever the process before it had learned,
\* and its next_round, min_proposal_number and accepted_proposal are the ones
\* the file holds.
C17_VolatileNotPersisted ==
    is_some(boot) =>
        LET a == unwrap(boot).node
        IN  /\ ~is_some(state[a].chosen_value)
            /\ unwrap(boot).read = "Ok"
                  => Durable(state[a]) = Durable(unwrap(deserialize(unwrap(disk[a]))))

\* A number has been taken by p in this step.
Generated(p) == proposal_number'[p] # proposal_number[p] \/ state'[p] # state[p]

\* C18: every call of the generator returns the round next_round with the
\* agent's own address (round 0 on the initial state), increments next_round
\* by exactly one, and returns a number strictly above the number the call
\* before it returned on the same agent.
C18_NumbersIncrease ==
    [][\A p \in Nodes :
         Generated(p) =>
            /\ proposal_number'[p] = Some([round |-> state[p].next_round, proposer_address |-> nodes[p]])
            /\ state[p] = initial => unwrap(proposal_number'[p]).round = 0
            /\ state'[p].next_round = state[p].next_round + 1
            /\ is_some(proposal_number[p])
                  => lt(unwrap(proposal_number[p]), unwrap(proposal_number'[p]))]_vars

\* An agent has taken its third number.
C18_Witness ==
    \E p \in Nodes :
        /\ state[p].next_round = 3
        /\ proposal_number[p] = Some([round |-> 2, proposer_address |-> nodes[p]])

\* C19: two agents with distinct addresses never generate equal proposal
\* numbers, also when they use the same round.
C19_NumbersUnique ==
    \A p, q \in Nodes :
        (p # q /\ nodes[p] # nodes[q] /\ is_some(proposal_number[p]) /\ is_some(proposal_number[q]))
            => /\ unwrap(proposal_number[p]) # unwrap(proposal_number[q])
               /\ cmp(unwrap(proposal_number[p]), unwrap(proposal_number[q])) # 0

\* All the agents have taken the number of the same round.
C19_Witness ==
    /\ \A p \in Nodes : is_some(proposal_number[p])
    /\ \A p, q \in Nodes : unwrap(proposal_number[p]).round = unwrap(proposal_number[q]).round
    /\ \E p \in Nodes : unwrap(proposal_number[p]).round > 0

\* C20: no proposal number is reissued across a crash: when an attempt sends
\* its prepare, no message of an earlier attempt carries its number, wherever
\* the process was killed and started again in between.
C20_NoNumberReissued ==
    [][\A p \in Nodes :
         (pc[p] = "persist" /\ pc'[p] = "prepare")
            => PrepareRequest(proposal_number[p]) \notin msgs]_vars

\* The order of the addresses: the ip first, then the port.
address_below(a, b) == a.ip < b.ip \/ (a.ip = b.ip /\ a.port < b.port)

\* C21: the order on proposal numbers is a total order (two numbers compare
\* equal exactly when they are the same number, x against y is the reverse of
\* y against x, and the order is transitive) that compares the round first
\* and, for equal rounds, is the order of the proposer addresses: a lower
\* round is below whatever the addresses.
C21_RoundFirstTotalOrder ==
    is_some(last) =>
        LET c == unwrap(last)
        IN  /\ c.xy \in {-1, 0, 1}
            /\ (c.xy = 0) <=> (c.self = c.other)
            /\ c.yx = -c.xy
            /\ (c.xy <= 0 /\ c.yz <= 0) => c.xz <= 0
            /\ c.self.round < c.other.round => c.xy = -1
            /\ c.self.round = c.other.round =>
                  ((c.xy = -1) <=> address_below(c.self.proposer_address,
                                                 c.other.proposer_address))

\* (0, a1) against (0, a2) against (1, a0), with a0 below a1 below a2.
C21_Witness ==
    /\ is_some(last)
    /\ unwrap(last).self = [round |-> 0, proposer_address |-> [ip |-> 0, port |-> 1]]
    /\ unwrap(last).other = [round |-> 0, proposer_address |-> [ip |-> 1, port |-> 0]]
    /\ unwrap(last).third = [round |-> 1, proposer_address |-> [ip |-> 0, port |-> 0]]
    /\ unwrap(last).xy = -1
    /\ unwrap(last).yz = -1

\* The accept requests sent with the number n.
AcceptsOf(n) == { m \in msgs : m.endpoint = ACCEPT_ENDPOINT /\ m.payload.proposal[1] = n }

\* C22: when a value a had been chosen (a proposal carrying it accepted by a
\* majority) before a proposer with another value b began its attempt, the
\* accept requests of that attempt carry a, not b, and so does the choose it
\* sends.
C22_PicksUpChosenValue ==
    \A p \in Nodes :
        \A v \in chosen_before[p] :
            (pc[p] \in {"accept", "choose"} /\ proposal[p] # Some(v)) =>
                /\ new_value[p] = Some(v)
                /\ \A m \in AcceptsOf(unwrap(proposal_number[p])) : m.payload.proposal[2] = v
                /\ pc[p] = "choose" =>
                      /\ ChooseRequest(v) \in msgs
                      /\ ChooseRequest(unwrap(proposal[p])) \notin msgs

\* A proposer of b that began after a was chosen has sent its choose.
C22_Witness ==
    \E p \in Nodes :
        /\ pc[p] = "choose"
        /\ chosen_before[p] # {}
        /\ \A v \in chosen_before[p] : proposal[p] # Some(v)

\* Propose has returned Ok and every agent holds x and has printed it once.
AllLearned(x) ==
    /\ pc[Sole] = "done"
    /\ \A a \in Nodes : state[a].chosen_value = Some(x) /\ stdout[a] = <<x>>

\* C23 (liveness with one proposer): when only one agent proposes x, all
\* agents stay up and every waiting send is eventually answered, propose
\* eventually returns Ok and from some moment on every agent has
\* chosen_value = x and has printed x exactly once.
C23_OneProposerSucceeds == <>[]AllLearned(unwrap(proposal[Sole]))

\* The one proposer has returned from its first attempt and every agent has
\* printed x once and written its state file.
C23_Witness ==
    /\ AllLearned(unwrap(proposal[Sole]))
    /\ state[Sole].next_round = 1
    /\ \A a \in Nodes : disk[a] # None

\* The state the claim gives for a single-agent cluster of p after propose.
SingleFinal(p) ==
    LET n == [round |-> 0, proposer_address |-> nodes[p]]
        v == unwrap(proposal[p])
        durable == [ next_round          |-> 1,
                     min_proposal_number |-> Some(n),
                     accepted_proposal   |-> Some(<<n, v>>) ]
    IN  /\ pc[p] = "done"
        /\ stdout[p] = <<v>>
        /\ Durable(state[p]) = durable
        /\ is_some(disk[p])
        /\ deserialize(unwrap(disk[p])) = Some(durable)

\* C24 (single-agent cluster): with nodes = [self], propose(v) on a fresh
\* agent returns Ok (its handlers get the lock, which propose holds at none
\* of its network awaits), and from then on the agent has printed v exactly
\* once and its durable state, in memory and in the file, is next_round = 1,
\* min_proposal_number = (0, self), accepted_proposal = ((0, self), v).
C24_SingleAgentTerminates == <>[](\A p \in Proposers : SingleFinal(p))

\* A single agent has returned from propose while a repeated request of its
\* own is being handled.
C24_Witness ==
    \E p \in Proposers :
        /\ SingleFinal(p)
        /\ is_some(lock[p])

\* The accepted proposals the responses rs carry.
Carried(rs) ==
    { unwrap(rs[a]).accepted_proposal[1] :
        a \in { b \in Nodes : is_some(rs[b]) /\ unwrap(rs[b]).accepted_proposal # None } }

\* C25 (pick-up rule): the accept request of an attempt carries the value of
\* an accepted proposal no other accepted proposal among the prepare-quorum
\* responses has a higher number than, when some response carries an accepted
\* proposal, and the proposer's original value only when none does.
C25_PickUpRule ==
    is_some(last) =>
        LET p == unwrap(last).node
            carried == Carried(unwrap(last).prepare_responses)
            sent == AcceptsOf(unwrap(proposal_number[p]))
        IN  /\ Cardinality(sent) = 1
            /\ \A m \in sent :
                  LET v == m.payload.proposal[2]
                  IN  /\ new_value[p] = Some(v)
                      /\ carried = {} => v = unwrap(proposal[p])
                      /\ carried # {} =>
                            \E x \in carried :
                                /\ x[2] = v
                                /\ \A y \in carried : cmp(y[1], x[1]) <= 0

\* The quorum carried two accepted proposals with different numbers and
\* values; the accept carries the value of the higher, which is not the
\* proposer's own.
C25_Witness ==
    /\ is_some(last)
    /\ \E x, y \in Carried(unwrap(last).prepare_responses) :
          /\ cmp(x[1], y[1]) = 1
          /\ x[2] # y[2]
          /\ new_value[unwrap(last).node] = Some(x[2])
          /\ proposal[unwrap(last).node] # Some(x[2])

\* Every response of the accept quorum rs reports the number n.
AllReport(rs, n) ==
    \A a \in Nodes : is_some(rs[a]) => unwrap(rs[a]).min_proposal_number = n

\* C26: when the accept quorum of an attempt for (n, v) has returned, the
\* proposer sends ChooseRequest(v) if and only if every response of the
\* quorum reports min_proposal_number = n; when some response reports another
\* number it sends nothing and is back at the start of a new attempt.
C26_ChooseIffAllReport ==
    [][\A p \in Nodes :
         (pc[p] = "accept" /\ pc'[p] # "accept") =>
            LET rs == unwrap(last').accept_responses
                n == unwrap(proposal_number[p])
                v == unwrap(new_value[p])
            IN  /\ AllReport(rs, n) <=> (msgs' = msgs \cup {ChooseRequest(v)} /\ pc'[p] = "choose")
                /\ ~AllReport(rs, n) <=> (msgs' = msgs /\ pc'[p] = "start")
                /\ AllReport(rs, n) => ChooseRequest(v) \notin msgs]_vars

\* An attempt was preempted by one response of its accept quorum, and the
\* proposer has taken the number of its next attempt.
C26_Witness ==
    \E p \in Nodes :
        /\ is_some(last)
        /\ unwrap(last).node = p
        /\ pc[p] = "persist"
        /\ state[p].next_round = 2
        /\ \E a, b \in Nodes :
              LET rs == unwrap(last).accept_responses
              IN  /\ is_some(rs[a]) /\ is_some(rs[b])
                  /\ unwrap(rs[a]).min_proposal_number
                        = [round |-> 0, proposer_address |-> nodes[p]]
                  /\ unwrap(rs[b]).min_proposal_number
                        # [round |-> 0, proposer_address |-> nodes[p]]

\* C27: when some response of the accept quorum of p's attempt reported a
\* min_proposal_number whose round r exceeds the round of the attempt, then at
\* the start of p's next attempt next_round is at least r + 1, in memory and
\* in the state file, and the number the attempt takes has a round above r.
C27_NextRoundPassesObserved ==
    [][\A p \in Nodes :
         (/\ pc[p] = "start" /\ pc'[p] = "persist"
          /\ is_some(last) /\ unwrap(last).node = p) =>
            \A a \in Nodes :
                LET rs == unwrap(last).accept_responses
                IN  (/\ is_some(rs[a])
                     /\ unwrap(rs[a]).min_proposal_number.round > state[p].next_round - 1) =>
                        LET r == unwrap(rs[a]).min_proposal_number.round
                        IN  /\ state[p].next_round >= r + 1
                            /\ unwrap(deserialize(unwrap(disk[p]))).next_round >= r + 1
                            /\ unwrap(proposal_number'[p]).round > r]_vars

\* p's choose request to agent a has settled: a has answered it, or the try
\* has failed.
Settled(p, a) ==
    \/ is_some(responses[p][a])
    \/ /\ is_some(last)
       /\ unwrap(last).node = p
       /\ unwrap(last).peer = a
       /\ unwrap(last).endpoint = CHOOSE_ENDPOINT
       /\ unwrap(last).result = "error"

\* C28 (best-effort notify): propose returns as soon as the one try of its
\* choose request to every node has settled, with a response or with an
\* error: it is not left waiting in the choose broadcast when all of them
\* have, as when a minority of the nodes is down for good.
C28_ReturnsWhenSendsSettle ==
    \A p \in Nodes :
        pc[p] = "choose" => \E a \in Nodes : ~Settled(p, a)

\* The entries of nodes whose response is among rs, and their addresses.
Answering(rs) == { a \in Nodes : is_some(rs[a]) }

Peers(rs) == { nodes[a] : a \in Answering(rs) }

\* C29 (quorum broadcast): broadcast_quorum over N peers returns exactly
\* floor(N/2)+1 responses, each from another peer; it returns as soon as that
\* many have answered, so a proposer is never found waiting with that many
\* responses in hand; and two quorums it returned share a peer.
C29_QuorumBroadcast ==
    /\ \A p \in Nodes :
          pc[p] \in {"prepare", "accept"} =>
              Cardinality(Responded(p)) < (Len(nodes) \div 2) + 1
    /\ (is_some(last) /\ "returned" \in DOMAIN unwrap(last)) =>
          LET returned == unwrap(last).returned
              earlier  == unwrap(last).earlier
          IN  /\ Cardinality(Answering(returned)) = (Len(nodes) \div 2) + 1
              /\ Cardinality(Peers(returned)) = (Len(nodes) \div 2) + 1
              /\ is_some(earlier) => Peers(returned) \cap Peers(unwrap(earlier)) # {}

\* The accept quorum has returned while the remaining peer has accepted
\* nothing yet, and it is not the quorum that returned before it.
C29_Witness ==
    /\ is_some(last)
    /\ "returned" \in DOMAIN unwrap(last)
    /\ unwrap(last).endpoint = ACCEPT_ENDPOINT
    /\ is_some(unwrap(last).earlier)
    /\ Peers(unwrap(last).returned) # Peers(unwrap(unwrap(last).earlier))
    /\ \E b \in Nodes : ~is_some(unwrap(last).returned[b]) /\ votes[b] = {}

\* What holds of a call of send at every moment: it is trying, sleeping after
\* a failed try, or has returned the peer's answer; the delay before retry k,
\* the first retry being retry 0, was min(start * 2^k, cap); start is within
\* 50..100 ms and cap within 1..2 s; no delay is below the one before it or
\* above the cap.
BackoffLaw ==
    Sending =>
        LET call  == unwrap(last)
            start == EXPONENTIAL_BACKOFF_MIN(call.file)
            cap   == EXPONENTIAL_BACKOFF_MAX(call.file)
        IN  /\ call.at \in {"try", "sleep", "returned"}
            /\ call.at = "returned" <=> call.returned # None
            /\ call.returned \in {None, Some(call.answer)}
            /\ start >= 50 /\ start <= 100
            /\ cap >= 1000 /\ cap <= 2000
            /\ \A i \in 1..Len(call.slept) :
                  /\ call.slept[i] = (IF start * 2^(i - 1) <= cap THEN start * 2^(i - 1) ELSE cap)
                  /\ call.slept[i] <= cap
                  /\ i > 1 => call.slept[i] >= call.slept[i - 1]

HandlerWrites(a) == { w \in Writes : w.node = a /\ w.by = "handle_request" }

not_below(x, y) == y = None \/ (x # None /\ ge(unwrap(x), unwrap(y)))

\* The number of an optional accepted proposal.
accepted_number(o) == IF o = None THEN None ELSE Some(unwrap(o)[1])

\* The contents new of a state file are no older snapshot of the agent's
\* state than the contents old: no durable field is behind.
NotOlder(new, old) ==
    \/ old = None
    \/ /\ new # None
       /\ LET n == Durable(unwrap(new).payload)
              o == Durable(unwrap(old).payload)
          IN  /\ n.next_round >= o.next_round
              /\ not_below(n.min_proposal_number, o.min_proposal_number)
              /\ not_below(accepted_number(n.accepted_proposal), accepted_number(o.accepted_proposal))

SentRounds(a) ==
    { unwrap(m.payload.proposal_number).round :
        m \in { x \in msgs : /\ x.endpoint = PREPARE_ENDPOINT
                              /\ is_some(x.payload.proposal_number)
                              /\ unwrap(x.payload.proposal_number).proposer_address = nodes[a] } }

\* C32 (next_round never decreases): no handler, proposer step or crash and
\* restart leaves an agent with a next_round below one it held before; stated
\* for the values the agent had persisted and used for a prepare, which a
\* kill cannot have caught between the increment and its write.
C32_NextRoundNeverDecreases ==
    [][\A a \in Nodes :
         (state[a].next_round - 1) \in SentRounds(a)
            => state'[a].next_round >= state[a].next_round]_vars

\* C33 (choose touches volatile state only): a choose leaves next_round,
\* min_proposal_number and accepted_proposal as they were, and its handler
\* performs no write of the state file.
C33_ChooseWritesNothing ==
    [][(is_some(last') /\ last' # last /\ unwrap(last').endpoint = CHOOSE_ENDPOINT) =>
          LET c == unwrap(last')
          IN  /\ Durable(c.after) = Durable(c.before)
              /\ disk'[c.node] = disk[c.node]]_vars

\* The latest call is a prepare or an accept.
CalledAcceptor == Called(PREPARE_ENDPOINT) \/ Called(ACCEPT_ENDPOINT)

\* C34 (idempotent under redelivery): a prepare or an accept request that is
\* applied a second time, right after the first, leaves the agent in the
\* state the first left, writes the same file and returns the same response.
C34_RedeliveryIdempotent ==
    /\ [](CalledAcceptor =>
            LET c == unwrap(last)
                again == rpc(c.endpoint, c.request, c.after)
            IN  again.state = c.after /\ again.response = c.response)
    /\ [][(CalledAcceptor /\ CalledAcceptor'
              /\ unwrap(last').node = unwrap(last).node
              /\ unwrap(last').endpoint = unwrap(last).endpoint
              /\ unwrap(last').request = unwrap(last).request
              /\ unwrap(last').before = unwrap(last).after)
           => /\ unwrap(last').after = unwrap(last).after
              /\ unwrap(last').response = unwrap(last).response
              /\ disk' = disk]_vars

\* An accept of the proposal the agent holds already, above an older promise
\* that the first delivery has replaced.
C34_Witness ==
    /\ Called(ACCEPT_ENDPOINT)
    /\ unwrap(last).before = unwrap(last).after
    /\ unwrap(last).after.accepted_proposal = Some(unwrap(last).request.proposal)
    /\ unwrap(last).response.min_proposal_number = unwrap(last).request.proposal[1]
    /\ is_some(promised[unwrap(last).node])
    /\ lt(unwrap(promised[unwrap(last).node]), unwrap(last).request.proposal[1])

\* C35 (accept needs no promise): on an agent that holds no promise, because
\* it has never received a prepare, accept((n, v)) accepts the proposal and
\* returns n; min_proposal_number is set whenever accept builds its response.
C35_AcceptWithoutPromise ==
    Called(ACCEPT_ENDPOINT) =>
        LET c == unwrap(last)
        IN  /\ is_some(c.after.min_proposal_number)
            /\ c.response.min_proposal_number = unwrap(c.after.min_proposal_number)
            /\ ~is_some(c.before.min_proposal_number) =>
                  /\ c.after.accepted_proposal = Some(c.request.proposal)
                  /\ c.after.min_proposal_number = Some(c.request.proposal[1])
                  /\ c.response.min_proposal_number = c.request.proposal[1]

\* The first request the agent has ever served is an accept, and the agent
\* has answered no prepare.
C35_Witness ==
    /\ Called(ACCEPT_ENDPOINT)
    /\ ~is_some(unwrap(last).before.min_proposal_number)
    /\ ~is_some(unwrap(last).before.accepted_proposal)
    /\ ~is_some(promised[unwrap(last).node])
    /\ is_some(state[unwrap(last).node].accepted_proposal)

\* The original values of the proposers whose propose has begun an attempt.
Originals == { unwrap(proposal[p]) : p \in { q \in Proposers : state[q].next_round > 0 } }

\* C36 (validity): every value an agent has accepted, holds as accepted, has
\* learned as chosen or has printed, and every value in a request, is the
\* original value some proposer was started with; the protocol invents none.
C36_Validity ==
    /\ \A a \in Nodes :
          /\ \A x \in votes[a] : x[2] \in Originals
          /\ is_some(state[a].accepted_proposal) => unwrap(state[a].accepted_proposal)[2] \in Originals
          /\ is_some(state[a].chosen_value) => unwrap(state[a].chosen_value) \in Originals
          /\ \A i \in 1..Len(stdout[a]) : stdout[a][i] \in Originals
    /\ \A m \in msgs :
          /\ m.endpoint = ACCEPT_ENDPOINT => m.payload.proposal[2] \in Originals
          /\ m.endpoint = CHOOSE_ENDPOINT => m.payload.value \in Originals

\* Both original values have been accepted somewhere, one of them has been
\* chosen and learned.
C36_Witness ==
    /\ \E a \in Nodes : is_some(state[a].chosen_value)
    /\ { x[2] : x \in UNION { votes[a] : a \in Nodes } } = { unwrap(proposal[p]) : p \in Proposers }
    /\ Cardinality({ unwrap(proposal[p]) : p \in Proposers }) > 1

\* The proposals the accept requests sent so far carry.
Proposed == { m.payload.proposal : m \in { x \in msgs : x.endpoint = ACCEPT_ENDPOINT } }

\* The proposals agents have accepted or hold as accepted.
Held ==
    UNION { votes[a] : a \in Nodes }
        \cup { unwrap(state[a].accepted_proposal) :
                 a \in { b \in Nodes : is_some(state[b].accepted_proposal) } }

\* C37 (one value per proposal number): accept requests that carry the same
\* proposal number carry the same value, so two accepted proposals with equal
\* numbers never differ in their values.
C37_OneValuePerNumber ==
    /\ \A x, y \in Proposed : x[1] = y[1] => x[2] = y[2]
    /\ \A x, y \in Held : x[1] = y[1] => x[2] = y[2]
    /\ Held \subseteq Proposed

\* Two proposers have proposals of the same round and of different values
\* accepted at different agents.
C37_Witness ==
    \E a, b \in Nodes :
        /\ a # b
        /\ is_some(state[a].accepted_proposal)
        /\ is_some(state[b].accepted_proposal)
        /\ unwrap(state[a].accepted_proposal)[1].round = unwrap(state[b].accepted_proposal)[1].round
        /\ unwrap(state[a].accepted_proposal)[2] # unwrap(state[b].accepted_proposal)[2]

=============================================================================
